---- MODULE Spec2Model ----
(***************************************************************************)
(* Model of dolphin/transcribe.py: the flag parser (parser_args), the      *)
(* model loader (load_model) and the transcription pipeline (transcribe,   *)
(* cli).  The external collaborators (torch.cuda.is_available, the file    *)
(* system, DolphinSpeech2Text, load_audio) are the environment: what they  *)
(* return is drawn nondeterministically, what they are given is recorded   *)
(* in `trace`.                                                             *)
(*                                                                         *)
(* Text that ends up in a file-system path (model name, model directory)   *)
(* is a sequence of characters, so that pathlib's parsing and joining are  *)
(* computed rather than assumed.  ".pt" and "config.yaml" are single       *)
(* tokens of such a sequence (they contain no separator).                  *)
(***************************************************************************)
EXTENDS Integers, Sequences, FiniteSets, TLC

\* Longest model name / directory text drawn for a load_model call.
MaxLen == 2

None == "None"

NameAlphabet == {"/", "s"}
DirAlphabet == {"/", "d"}

Text(alphabet) == UNION {[1..k -> alphabet] : k \in 0..MaxLen}

(***************************************************************************)
(* pathlib.PurePosixPath                                                   *)
(***************************************************************************)
RECURSIVE LeadingSlashes(_)
LeadingSlashes(s) ==
    IF s = <<>> \/ Head(s) # "/" THEN 0 ELSE 1 + LeadingSlashes(Tail(s))

\* POSIX: exactly two leading slashes are kept, any other number is one root.
Root(s) ==
    LET n == LeadingSlashes(s)
    IN  IF n = 0 THEN 0 ELSE IF n = 2 THEN 2 ELSE 1

RECURSIVE Split(_, _, _)
Split(s, cur, acc) ==
    LET flushed == IF cur = <<>> \/ cur = <<".">> THEN acc ELSE Append(acc, cur)
    IN  IF s = <<>> THEN flushed
        ELSE IF Head(s) = "/" THEN Split(Tail(s), <<>>, flushed)
        ELSE Split(Tail(s), Append(cur, Head(s)), acc)

Segments(s) == Split(s, <<>>, <<>>)

\* Path(text)
PurePath(s) == [root |-> Root(s), parts |-> Segments(s)]

\* path / text : an anchored right operand replaces the left one.
TrueDiv(p, s) ==
    LET q == PurePath(s)
    IN  IF q.root > 0 THEN q
        ELSE [root |-> p.root, parts |-> p.parts \o q.parts]

\* f"{model_name}.pt"
PtName(model_name) == model_name \o <<".pt">>

ConfigName == <<"config.yaml">>

(***************************************************************************)
(* str2bool and the argparse type conversions                              *)
(***************************************************************************)
\* distutils.util.strtobool: 1, 0 or ValueError
strtobool(v) ==
    IF v \in {"y", "yes", "t", "true", "on", "1"} THEN 1
    ELSE IF v \in {"n", "no", "f", "false", "off", "0"} THEN 0
    ELSE -1

str2bool(v) == strtobool(v) # 0

\* int(raw) for the raw values the model draws; -1 stands for ValueError
ParseInt(raw) ==
    CASE raw = "3" -> 3
      [] raw = "1" -> 1
      [] OTHER -> -1

\* float(raw), in tenths; -1 stands for ValueError
ParseFloat(raw) ==
    CASE raw = "0.5" -> 5
      [] raw = "1.0" -> 10
      [] OTHER -> -1

(***************************************************************************)
(* parser_args                                                             *)
(***************************************************************************)
Flags ==
    {"audio", "model", "model_dir", "lang_sym", "region_sym", "dtype",
     "device", "normalize_length", "padding_speech", "predict_time",
     "beam_size", "maxlenratio"}

\* The raw command-line words the model draws for each flag.
RawMain ==
    [audio |-> "a.wav", model |-> <<"s">>, model_dir |-> <<"d">>,
     lang_sym |-> "<zh>", region_sym |-> "<CN>", dtype |-> "float16",
     device |-> "cpu", normalize_length |-> "yes", padding_speech |-> "off",
     predict_time |-> "0", beam_size |-> "3", maxlenratio |-> "0.5"]

RawAlt ==
    [model |-> <<"/", "s">>, normalize_length |-> "maybe", beam_size |-> "x"]

AltFlags == DOMAIN RawAlt

RawOf(alt) == [f \in Flags |-> IF f \in alt THEN RawAlt[f] ELSE RawMain[f]]

\* parser.parse_args(): ok = FALSE is argparse's error exit (SystemExit 2).
parser_args(present, raw) ==
    LET has(f) == f \in present
        badBool(f) == has(f) /\ strtobool(raw[f]) = -1
    IN  [ok |-> /\ has("audio")
                /\ has("model_dir")
                /\ ~badBool("normalize_length")
                /\ ~badBool("padding_speech")
                /\ ~badBool("predict_time")
                /\ (has("beam_size") => ParseInt(raw.beam_size) # -1)
                /\ (has("maxlenratio") => ParseFloat(raw.maxlenratio) # -1),
         ns |-> [audio |-> raw.audio,
                 model |-> IF has("model") THEN raw.model ELSE <<"small">>,
                 model_dir |-> [type |-> "Path", path |-> PurePath(raw.model_dir)],
                 lang_sym |-> IF has("lang_sym") THEN raw.lang_sym ELSE None,
                 region_sym |-> IF has("region_sym") THEN raw.region_sym ELSE None,
                 dtype |-> IF has("dtype") THEN raw.dtype ELSE "float32",
                 device |-> IF has("device") THEN raw.device ELSE None,
                 normalize_length |->
                     IF has("normalize_length") THEN str2bool(raw.normalize_length)
                     ELSE FALSE,
                 padding_speech |->
                     IF has("padding_speech") THEN str2bool(raw.padding_speech)
                     ELSE TRUE,
                 predict_time |->
                     IF has("predict_time") THEN str2bool(raw.predict_time)
                     ELSE TRUE,
                 beam_size |-> IF has("beam_size") THEN ParseInt(raw.beam_size) ELSE 5,
                 maxlenratio |->
                     IF has("maxlenratio") THEN ParseFloat(raw.maxlenratio) ELSE 0]]

(***************************************************************************)
(* load_model                                                              *)
(***************************************************************************)
\* kwargs.get(key, default)
Get(kwargs, key, default) == IF key \in DOMAIN kwargs THEN kwargs[key] ELSE default

\* Variant: the caller's device is ignored and the device always autodetected.
ResolveDevice_Autodetect(device, cuda) == IF cuda THEN "cuda" ELSE "cpu"

\* device = "cuda" if torch.cuda.is_available() else "cpu", when device is None
ResolveDevice(device, cuda) ==
    IF device = None THEN (IF cuda THEN "cuda" ELSE "cpu") ELSE device

\* if not isinstance(model_dir, Path): model_dir = Path(model_dir)
AsPath(model_dir) ==
    IF model_dir.type # "Path" THEN PurePath(model_dir.text) ELSE model_dir.path

ModelFile(model_name, model_dir) == TrueDiv(AsPath(model_dir), PtName(model_name))

TrainCfg(model_dir) == TrueDiv(AsPath(model_dir), ConfigName)

\* The keyword arguments load_model writes out in the constructor call.
Explicit(model_name, model_dir, device, kwargs, cuda) ==
    [s2t_train_config |-> TrainCfg(model_dir),
     s2t_model_file |-> ModelFile(model_name, model_dir),
     device |-> ResolveDevice(device, cuda),
     task_sym |-> Get(kwargs, "task_sym", "<asr>"),
     predict_time |-> Get(kwargs, "predict_time", TRUE)]

\* Variant: the missing checkpoint is logged but the raise is left out, so the
\* constructor is still called.
load_model_NoRaise(model_name, model_dir, device, kwargs, env) ==
    LET model_file == ModelFile(model_name, model_dir)
        explicit == Explicit(model_name, model_dir, device, kwargs, env.cuda)
        found == model_file \in env.files
        check == <<[ev |-> "exists", path |-> model_file, found |-> found]>>
        logged == IF found THEN check
                  ELSE check \o <<[ev |-> "log_error", name |-> model_name]>>
    IN  IF DOMAIN kwargs \cap DOMAIN explicit # {}
        THEN [raised |-> "TypeError", events |-> logged]
        ELSE [raised |-> IF env.ctor_ok THEN "none" ELSE "ConstructorError",
              events |-> logged \o <<[ev |-> "construct", kw |-> explicit @@ kwargs]>>]

\* Variant: the model is constructed before the checkpoint is looked for.
load_model_ConstructFirst(model_name, model_dir, device, kwargs, env) ==
    LET model_file == ModelFile(model_name, model_dir)
        explicit == Explicit(model_name, model_dir, device, kwargs, env.cuda)
        found == model_file \in env.files
        check == <<[ev |-> "exists", path |-> model_file, found |-> found]>>
        built == <<[ev |-> "construct", kw |-> explicit @@ kwargs]>>
    IN  IF DOMAIN kwargs \cap DOMAIN explicit # {}
        THEN [raised |-> "TypeError", events |-> <<>>]
        ELSE IF ~env.ctor_ok
        THEN [raised |-> "ConstructorError", events |-> built]
        ELSE IF ~found
        THEN [raised |-> "Exception",
              events |-> built \o check
                         \o <<[ev |-> "log_error", name |-> model_name]>>]
        ELSE [raised |-> "none", events |-> built \o check]

\* The whole function.  env = [files, cuda, ctor_ok]: the files that exist,
\* torch.cuda.is_available(), and whether DolphinSpeech2Text(...) returns.
\* A keyword given both explicitly and through **kwargs is a TypeError raised
\* by the call expression itself, before the callee runs.
load_model(model_name, model_dir, device, kwargs, env) ==
    LET model_file == ModelFile(model_name, model_dir)
        explicit == Explicit(model_name, model_dir, device, kwargs, env.cuda)
        found == model_file \in env.files
        check == <<[ev |-> "exists", path |-> model_file, found |-> found]>>
    IN  IF ~found
        THEN [raised |-> "Exception",
              events |-> check \o <<[ev |-> "log_error", name |-> model_name]>>]
        ELSE IF DOMAIN kwargs \cap DOMAIN explicit # {}
        THEN [raised |-> "TypeError", events |-> check]
        ELSE [raised |-> IF env.ctor_ok THEN "none" ELSE "ConstructorError",
              events |-> check \o <<[ev |-> "construct", kw |-> explicit @@ kwargs]>>]

(***************************************************************************)
(* State                                                                   *)
(***************************************************************************)
VARIABLES
    pc,         \* where the process is: "idle", "transcribe", "load_audio",
                \* "invoke", "log", "done", "raised", "exited", "loaded"
    args,       \* <<Namespace>> once parser_args returned, else <<>>
    call,       \* <<arguments of the load_model call>>, else <<>>
    env,        \* <<what the environment answered during that call>>, else <<>>
    raised,     \* the exception that left the current call, or "none"
    trace,      \* what was asked of the collaborators and the logger, in order
    waveform,   \* <<waveform>> once load_audio returned
    result,     \* <<result>> once the model call returned
    ret         \* <<value returned by transcribe>>

vars == <<pc, args, call, env, raised, trace, waveform, result, ret>>

\* What the external collaborators may answer.
Devices == {None, "cpu", "cuda:1"}
Waveforms == {"wave0", "wave1"}
Results ==
    {[text |-> "<zh><CN> ni hao", text_nospecial |-> "ni hao"],
     [text |-> "", text_nospecial |-> ""]}

\* Keyword options a caller of load_model may add.
KwValue == [task_sym |-> "<lid>", predict_time |-> FALSE, beam_size |-> 3]
KwKeys == DOMAIN KwValue
KwargsOf(keys) == [k \in keys |-> KwValue[k]]
NoKwargs == KwargsOf({})

ModelDirs ==
    {[type |-> "str", text |-> t] : t \in Text(DirAlphabet)}
    \cup {[type |-> "Path", path |-> PurePath(t)] : t \in Text(DirAlphabet)}

\* The entry `name` of directory `dir`: what {dir}/{name} denotes in the
\* specification's wording (used by the properties, not by load_model).
Inside(dir, name) == [root |-> dir.root, parts |-> dir.parts \o Segments(name)]

DirOf(model_dir) ==
    IF model_dir.type = "Path" THEN model_dir.path ELSE PurePath(model_dir.text)

\* The files whose existence the environment decides for one load_model call.
CandidateFiles(model_name, model_dir) ==
    {ModelFile(model_name, model_dir),
     Inside(DirOf(model_dir), PtName(model_name)),
     Inside(DirOf(model_dir), ConfigName)}

Init ==
    /\ pc = "idle"
    /\ args = <<>>
    /\ call = <<>>
    /\ env = <<>>
    /\ raised = "none"
    /\ trace = <<>>
    /\ waveform = <<>>
    /\ result = <<>>
    /\ ret = <<>>

(***************************************************************************)
(* A library caller: load_model(model_name, model_dir, device, **kwargs)   *)
(***************************************************************************)
LoadModelCall ==
    /\ pc = "idle"
    /\ \E model_name \in Text(NameAlphabet), model_dir \in ModelDirs,
          device \in Devices, keys \in SUBSET KwKeys,
          cuda \in BOOLEAN, ctor_ok \in BOOLEAN :
         \E files \in SUBSET CandidateFiles(model_name, model_dir) :
            LET e == [files |-> files, cuda |-> cuda, ctor_ok |-> ctor_ok]
                r == load_model(model_name, model_dir, device, KwargsOf(keys), e)
            IN  /\ call' = <<[model_name |-> model_name, model_dir |-> model_dir,
                              device |-> device, kwargs |-> KwargsOf(keys)]>>
                /\ env' = <<e>>
                /\ raised' = r.raised
                /\ trace' = r.events
    /\ pc' = "loaded"
    /\ UNCHANGED <<args, waveform, result, ret>>

\* The caller is done with that call and may make another one.
Release ==
    /\ pc = "loaded"
    /\ pc' = "idle"
    /\ call' = <<>>
    /\ env' = <<>>
    /\ raised' = "none"
    /\ trace' = <<>>
    /\ UNCHANGED <<args, waveform, result, ret>>

(***************************************************************************)
(* cli and transcribe                                                      *)
(***************************************************************************)
\* cli(): args = parser_args()
Cli ==
    /\ pc = "idle"
    /\ \E present \in SUBSET Flags, alt \in SUBSET AltFlags :
         LET p == parser_args(present, RawOf(alt))
         IN  IF p.ok
             THEN /\ args' = <<p.ns>>
                  /\ pc' = "transcribe"
                  /\ raised' = "none"
             ELSE /\ args' = <<>>
                  /\ pc' = "exited"
                  /\ raised' = "SystemExit"
    /\ UNCHANGED <<call, env, trace, waveform, result, ret>>

\* model = load_model(model_name, args.model_dir, args.device)
TranscribeLoadModel ==
    /\ pc = "transcribe"
    /\ LET a == args[1]
       IN  \E cuda \in BOOLEAN, ctor_ok \in BOOLEAN :
             \E files \in SUBSET CandidateFiles(a.model, a.model_dir) :
                LET e == [files |-> files, cuda |-> cuda, ctor_ok |-> ctor_ok]
                    r == load_model(a.model, a.model_dir, a.device, NoKwargs, e)
                IN  /\ call' = <<[model_name |-> a.model, model_dir |-> a.model_dir,
                                  device |-> a.device, kwargs |-> NoKwargs]>>
                    /\ env' = <<e>>
                    /\ raised' = r.raised
                    /\ trace' = trace \o r.events
                    /\ pc' = IF r.raised = "none" THEN "load_audio" ELSE "raised"
    /\ UNCHANGED <<args, waveform, result, ret>>

\* waveform = load_audio(args.audio)
TranscribeLoadAudio ==
    /\ pc = "load_audio"
    /\ \/ \E w \in Waveforms :
            /\ trace' = Append(trace, [ev |-> "load_audio", path |-> args[1].audio,
                                       returned |-> <<w>>])
            /\ waveform' = <<w>>
            /\ pc' = "invoke"
            /\ UNCHANGED raised
       \/ /\ trace' = Append(trace, [ev |-> "load_audio", path |-> args[1].audio,
                                     returned |-> <<>>])
          /\ raised' = "AudioError"
          /\ pc' = "raised"
          /\ UNCHANGED waveform
    /\ UNCHANGED <<args, call, env, result, ret>>

\* Variant: the parsed predict_time is not forwarded to the model call.
InvokeKw_DefaultPredictTime(a, w) ==
    [speech |-> w,
     lang_sym |-> a.lang_sym,
     region_sym |-> a.region_sym,
     predict_time |-> TRUE,
     padding_speech |-> a.padding_speech]

\* The keyword arguments of result = model(...)
InvokeKw(a, w) ==
    [speech |-> w,
     lang_sym |-> a.lang_sym,
     region_sym |-> a.region_sym,
     predict_time |-> a.predict_time,
     padding_speech |-> a.padding_speech]

TranscribeInvoke ==
    /\ pc = "invoke"
    /\ LET kw == InvokeKw(args[1], waveform[1])
       IN  \/ \E r \in Results :
                /\ trace' = Append(trace, [ev |-> "invoke", kw |-> kw, returned |-> <<r>>])
                /\ result' = <<r>>
                /\ pc' = "log"
                /\ UNCHANGED raised
           \/ /\ trace' = Append(trace, [ev |-> "invoke", kw |-> kw, returned |-> <<>>])
              /\ raised' = "DecodeError"
              /\ pc' = "raised"
              /\ UNCHANGED result
    /\ UNCHANGED <<args, call, env, waveform, ret>>

\* logger.info(f"decode result, text: {result['text']}"); return result
TranscribeLogReturn ==
    /\ pc = "log"
    /\ trace' = Append(trace, [ev |-> "log_info", text |-> result[1].text])
    /\ ret' = result
    /\ pc' = "done"
    /\ UNCHANGED <<args, call, env, raised, waveform, result>>

Next ==
    \/ LoadModelCall
    \/ Release
    \/ Cli
    \/ TranscribeLoadModel
    \/ TranscribeLoadAudio
    \/ TranscribeInvoke
    \/ TranscribeLogReturn

Spec == Init /\ [][Next]_vars

\* The names of the events, in order.
Names(tr) == [i \in 1..Len(tr) |-> tr[i].ev]

Events(name) == SelectSeq(trace, LAMBDA e : e.ev = name)

TypeOK ==
    /\ pc \in {"idle", "loaded", "transcribe", "load_audio", "invoke", "log",
               "done", "raised", "exited"}
    /\ Len(args) <= 1 /\ Len(call) <= 1 /\ Len(env) <= 1

(***************************************************************************)
(* Properties                                                              *)
(***************************************************************************)
InCall == call # <<>> /\ env # <<>>
InCli == args # <<>>

Constructs == Events("construct")
ErrorLogs == Events("log_error")

\* The checkpoint named by the caller's arguments: {model_dir}/{model_name}.pt
NamedCheckpoint == Inside(DirOf(call[1].model_dir), PtName(call[1].model_name))
NamedConfig == Inside(DirOf(call[1].model_dir), ConfigName)

\* C1: whenever {model_dir}/{model_name}.pt does not exist at the call,
\* load_model logs one error, raises, and never invokes the constructor.
C1_MissingCheckpointRaises ==
    (InCall /\ NamedCheckpoint \notin env[1].files)
        => /\ raised = "Exception"
           /\ Len(ErrorLogs) = 1
           /\ Len(Constructs) = 0

\* How a parsed flag can reach the constructor or the model call unchanged.
PassedVerbatim(f, a, ckw, ikw) ==
    \/ f \in DOMAIN ckw /\ ckw[f] = a[f]
    \/ f \in DOMAIN ikw /\ ikw[f] = a[f]

OptionFlags ==
    {"lang_sym", "region_sym", "dtype", "normalize_length", "padding_speech",
     "predict_time", "beam_size", "maxlenratio"}

\* C2: once transcribe has invoked the model, every parsed configuration
\* flag has reached the constructor or the model call unchanged (the model
\* name and directory through the two paths, the device through the
\* constructor's device).
C2_FlagsPassedThrough ==
    (InCli /\ pc \in {"log", "done"})
        => LET a == args[1]
               ckw == Constructs[1].kw
               ikw == Events("invoke")[1].kw
           IN  /\ ckw.s2t_model_file = ModelFile(a.model, a.model_dir)
               /\ ckw.s2t_train_config = TrainCfg(a.model_dir)
               /\ a.device # None => ckw.device = a.device
               /\ \A f \in OptionFlags : PassedVerbatim(f, a, ckw, ikw)

\* C3: the device handed to the constructor is the caller's device when it
\* is not None, else "cuda" when a GPU is available and "cpu" otherwise.
C3_DeviceSelection ==
    InCall =>
        \A i \in 1..Len(Constructs) :
            Constructs[i].kw.device =
                IF call[1].device # None THEN call[1].device
                ELSE IF env[1].cuda THEN "cuda" ELSE "cpu"

C3_Witness ==
    /\ InCall
    /\ Len(Constructs) = 1
    /\ call[1].device = None
    /\ env[1].cuda
    /\ Constructs[1].kw.device = "cuda"

CheckpointMissing ==
    \E i \in 1..Len(trace) : trace[i].ev = "exists" /\ ~trace[i].found

\* C4: in a cli/transcribe run whose checkpoint file is missing, the
\* loader's exception leaves the run uncaught; no audio is loaded, the model
\* is neither constructed nor invoked and no transcript is logged.
C4_MissingCheckpointAbortsRun ==
    (InCli /\ CheckpointMissing)
        => /\ pc = "raised"
           /\ raised = "Exception"
           /\ ret = <<>>
           /\ Names(trace) = <<"exists", "log_error">>

C4_Witness ==
    /\ InCli
    /\ CheckpointMissing
    /\ pc = "raised"
    /\ Len(ErrorLogs) = 1

PipelineOrder == <<"exists", "construct", "load_audio", "invoke", "log_info">>

Progress ==
    [transcribe |-> 0, load_audio |-> 2, invoke |-> 3, log |-> 4, done |-> 5]

CollaboratorFailed ==
    \/ raised = "ConstructorError" /\ ~env[1].ctor_ok
    \/ raised = "AudioError" /\ trace[Len(trace)].ev = "load_audio"
                             /\ trace[Len(trace)].returned = <<>>
    \/ raised = "DecodeError" /\ trace[Len(trace)].ev = "invoke"
                              /\ trace[Len(trace)].returned = <<>>

\* C5: a transcribe run whose checkpoint exists and whose collaborators
\* succeed performs, once each and in this order, the existence check, the
\* model construction, the audio load, the model invocation and the logging
\* of the transcript text, and then ends normally; a run stops short only
\* when the checkpoint is missing or a collaborator failed.
C5_PipelineOrder ==
    InCli =>
        /\ pc \in DOMAIN Progress
             => /\ Names(trace) = SubSeq(PipelineOrder, 1, Progress[pc])
                /\ raised = "none"
        /\ pc = "done"
             => /\ ret # <<>>
                /\ trace[5].text = Events("invoke")[1].returned[1].text
        /\ pc = "raised" => (CheckpointMissing \/ CollaboratorFailed)

C5_Witness ==
    /\ InCli
    /\ pc = "done"
    /\ Names(trace) = PipelineOrder
    /\ raised = "none"

\* C6: whenever the constructor is invoked it receives
\* {model_dir}/{model_name}.pt and {model_dir}/config.yaml of the caller's
\* model_dir, given as a Path or as a string.
C6_ResolvedPaths ==
    InCall =>
        \A i \in 1..Len(Constructs) :
            /\ Constructs[i].kw.s2t_model_file = NamedCheckpoint
            /\ Constructs[i].kw.s2t_train_config = NamedConfig

\* C7: when the checkpoint file exists, load_model constructs the model with
\* all the caller's extra options, with the caller's task_sym or "<asr>", and
\* with the caller's predict_time or True.
C7_KwargsForwarded ==
    (InCall /\ ModelFile(call[1].model_name, call[1].model_dir) \in env[1].files)
        => /\ Len(Constructs) = 1
           /\ LET kw == Constructs[1].kw
                  kwargs == call[1].kwargs
              IN  /\ \A k \in DOMAIN kwargs : k \in DOMAIN kw /\ kw[k] = kwargs[k]
                  /\ kw.task_sym = Get(kwargs, "task_sym", "<asr>")
                  /\ kw.predict_time = Get(kwargs, "predict_time", TRUE)

\* C8: the model is invoked with the waveform load_audio returned for
\* args.audio and with the parsed lang_sym, region_sym, predict_time and
\* padding_speech; transcribe returns what the invocation returned.
C8_InvocationArguments ==
    InCli =>
        /\ \A i \in 1..Len(Events("invoke")) :
              LET kw == Events("invoke")[i].kw
                  audio == Events("load_audio")
              IN  /\ Len(audio) = 1
                  /\ audio[1].path = args[1].audio
                  /\ <<kw.speech>> = audio[1].returned
                  /\ kw.lang_sym = args[1].lang_sym
                  /\ kw.region_sym = args[1].region_sym
                  /\ kw.predict_time = args[1].predict_time
                  /\ kw.padding_speech = args[1].padding_speech
                  /\ DOMAIN kw = {"speech", "lang_sym", "region_sym",
                                  "predict_time", "padding_speech"}
        /\ pc = "done" => ret = Events("invoke")[1].returned

C8_Witness ==
    /\ InCli
    /\ pc = "done"
    /\ ret = <<[text |-> "<zh><CN> ni hao", text_nospecial |-> "ni hao"]>>
    /\ args[1].predict_time = FALSE
    /\ args[1].padding_speech = FALSE
    /\ args[1].lang_sym = "<zh>"
    /\ Events("invoke")[1].kw.speech = "wave1"

\* C9: whenever {model_dir}/{model_name}.pt exists, load_model itself raises
\* nothing and reaches the constructor, config.yaml present or not.
C9_OnlyFailureIsMissingCheckpoint ==
    (InCall /\ NamedCheckpoint \in env[1].files)
        => /\ raised \notin {"Exception", "TypeError"}
           /\ Len(Constructs) = 1

====
